---- MODULE Spec2Model ----
(***************************************************************************)
(* A model of the HTTP router: the per-method route tree (internal/tree),  *)
(* the named-route registry (internal/naming), route groups, and the       *)
(* request dispatcher Router.ServeHTTP with its middleware composition.    *)
(*                                                                         *)
(* Go strings are modelled as sequences of one-character strings, so that  *)
(* strings.Trim, strings.Split and strings.Join are computed, not assumed. *)
(* Go maps are modelled as sets of <<key, value>> pairs with unique keys.  *)
(* Node pointers are indices into the heap tree.nodes; 0 is the nil        *)
(* pointer.                                                                *)
(***************************************************************************)
EXTENDS Integers, Sequences, FiniteSets, TLC

VARIABLES
    tree,        \* Router.tree: [roots: map method -> node, nodes: heap of Node]
    names,       \* Router.names: naming.Registry.routes, map name -> Route
    middleware,  \* Router.middleware: global middleware, in Use order
    groups,      \* the Group objects created so far
    calls,       \* log of the registration calls made so far
    nextId,      \* number of handler / middleware closures created so far
    started,     \* TRUE once the router serves traffic
    last,        \* the last request served and its observable result
    reqs,        \* the requests being served concurrently, one goroutine each
    ctxs         \* heap of the Context objects allocated by newContext

vars == <<tree, names, middleware, groups, calls, nextId, started, last,
          reqs, ctxs>>

----------------------------------------------------------------------------
(* Bounds of the model *)

MaxRoutes == 2      \* route registrations per behaviour of Spec
MaxMwRoutes == 1    \* route registrations per behaviour of SpecMW, SpecDispatch
MaxCalls == 4       \* registration calls per behaviour of SpecMW, SpecDispatch
MaxGroups == 2      \* Group objects per behaviour
MaxRequests == 2    \* requests served concurrently in SpecConc
MaxResources == 1   \* Resources calls per behaviour of SpecRes

----------------------------------------------------------------------------
(* Go maps *)

EmptyMap == {}
MapHas(m, k) == \E e \in m : e[1] = k
MapGet(m, k) == (CHOOSE e \in m : e[1] = k)[2]
MapPut(m, k, v) == {e \in m : e[1] # k} \cup {<<k, v>>}
MapDel(m, k) == {e \in m : e[1] # k}
MapKeys(m) == {e[1] : e \in m}

----------------------------------------------------------------------------
(* package strings *)

RECURSIVE TrimLeft(_, _)
TrimLeft(s, c) ==
    IF Len(s) > 0 /\ s[1] = c THEN TrimLeft(Tail(s), c) ELSE s

RECURSIVE TrimRight(_, _)
TrimRight(s, c) ==
    IF Len(s) > 0 /\ s[Len(s)] = c
    THEN TrimRight(SubSeq(s, 1, Len(s) - 1), c)
    ELSE s

Trim(s, c) == TrimRight(TrimLeft(s, c), c)

RECURSIVE Split(_, _)
Split(s, sep) ==
    IF \E i \in 1..Len(s) : s[i] = sep
    THEN LET i == CHOOSE k \in 1..Len(s) :
                      s[k] = sep /\ \A j \in 1..(k - 1) : s[j] # sep
         IN  <<SubSeq(s, 1, i - 1)>> \o Split(SubSeq(s, i + 1, Len(s)), sep)
    ELSE <<s>>

RECURSIVE Join(_, _)
Join(segs, sep) ==
    IF Len(segs) = 0 THEN <<>>
    ELSE IF Len(segs) = 1 THEN segs[1]
    ELSE segs[1] \o <<sep>> \o Join(Tail(segs), sep)

----------------------------------------------------------------------------
(* package tree: nodes *)

Static == "Static"
Param == "Param"
Wildcard == "Wildcard"

NilHandler == 0

NoErr == [msg |-> "nil", param |-> <<>>, first |-> 0, dup |-> 0]

Node(path, nType, paramName) ==
    [Path |-> path, NType |-> nType, Pattern |-> <<>>, Handlers |-> EmptyMap,
     Children |-> <<>>, ParamName |-> paramName, Middleware |-> <<>>]

New == [roots |-> EmptyMap, nodes |-> <<>>]

(* AddRoute, lines 55-57: the path must begin with '/' *)
ValidPathEmptyOk(path) == Len(path) = 0 \/ path[1] = "/"
ValidPath(path) == Len(path) # 0 /\ path[1] = "/"

(* AddRoute, line 84: a segment that binds a name *)
BindsNameColonOnly(segment) == Len(segment) > 0 /\ segment[1] = ":"
BindsName(segment) ==
    Len(segment) > 0 /\ (segment[1] = ":" \/ segment[1] = "*")

(* AddRoute, lines 82-91: segment indices are reported 0-based as in Go *)
RECURSIVE checkDuplicates(_, _, _)
checkDuplicates(segments, i, paramNames) ==
    IF i > Len(segments) THEN NoErr
    ELSE LET segment == segments[i] IN
         IF BindsName(segment)
         THEN LET paramName == Tail(segment) IN
              IF MapHas(paramNames, paramName)
              THEN [msg |-> "duplicate parameter", param |-> paramName,
                    first |-> MapGet(paramNames, paramName), dup |-> i - 1]
              ELSE checkDuplicates(segments, i + 1,
                                   MapPut(paramNames, paramName, i - 1))
         ELSE checkDuplicates(segments, i + 1, paramNames)

(* AddRoute, lines 96-107 *)
nTypeOf(segment) ==
    IF Len(segment) > 0 /\ segment[1] = ":" THEN Param
    ELSE IF Len(segment) > 0 /\ segment[1] = "*" THEN Wildcard
    ELSE Static

paramNameOf(segment) ==
    IF nTypeOf(segment) = Static THEN <<>> ELSE Tail(segment)

(* AddRoute, lines 110-116: the first child with the same text and kind *)
findChildNone(nodes, children, k, segment, nType) == 0
RECURSIVE findChild(_, _, _, _, _)
findChild(nodes, children, k, segment, nType) ==
    IF k > Len(children) THEN 0
    ELSE IF nodes[children[k]].Path = segment
            /\ nodes[children[k]].NType = nType
         THEN children[k]
         ELSE findChild(nodes, children, k + 1, segment, nType)

(* AddRoute, lines 93-138: the insertion loop; returns the new heap *)
RECURSIVE insert(_, _, _, _, _, _, _)
insertKeepsMiddleware(nodes, current, segments, i, method, handler, mw) ==
    IF i > Len(segments) THEN nodes
    ELSE LET segment == segments[i]
             nType == nTypeOf(segment)
             found == findChild(nodes, nodes[current].Children, 1,
                                segment, nType)
             next == IF found = 0 THEN Len(nodes) + 1 ELSE found
             nodes1 ==
                 IF found = 0
                 THEN Append([nodes EXCEPT ![current].Children = Append(@, next)],
                             Node(segment, nType, paramNameOf(segment)))
                 ELSE nodes
             nodes2 ==
                 IF i = Len(segments)
                 THEN [nodes1 EXCEPT
                         ![next].Handlers = MapPut(@, method, handler),
                         ![next].Pattern = <<"/">> \o Join(segments, "/"),
                         ![next].Middleware =
                             IF MapHas(nodes1[next].Handlers, method)
                             THEN @ ELSE mw]
                 ELSE nodes1
         IN  insert(nodes2, next, segments, i + 1, method, handler, mw)

insert(nodes, current, segments, i, method, handler, mw) ==
    IF i > Len(segments) THEN nodes
    ELSE LET segment == segments[i]
             nType == nTypeOf(segment)
             found == findChild(nodes, nodes[current].Children, 1,
                                segment, nType)
             next == IF found = 0 THEN Len(nodes) + 1 ELSE found
             nodes1 ==
                 IF found = 0
                 THEN Append([nodes EXCEPT ![current].Children = Append(@, next)],
                             Node(segment, nType, paramNameOf(segment)))
                 ELSE nodes
             nodes2 ==
                 IF i = Len(segments)
                 THEN [nodes1 EXCEPT
                         ![next].Handlers = MapPut(@, method, handler),
                         ![next].Pattern = <<"/">> \o Join(segments, "/"),
                         ![next].Middleware = mw]
                 ELSE nodes1
         IN  insert(nodes2, next, segments, i + 1, method, handler, mw)

(* Tree.AddRoute: returns the error and the tree after the call *)
AddRouteInsertsFirst(t, method, path, handler, mw) ==
    IF ~ValidPath(path)
    THEN [err |-> [NoErr EXCEPT !.msg = "invalid route path"], tree |-> t]
    ELSE LET t1 == IF MapHas(t.roots, method) THEN t
                   ELSE [roots |-> MapPut(t.roots, method, Len(t.nodes) + 1),
                         nodes |-> Append(t.nodes, Node(<<"/">>, Static, <<>>))]
             root == MapGet(t1.roots, method)
         IN  IF path = <<"/">>
             THEN [err |-> NoErr,
                   tree |-> [t1 EXCEPT
                       !.nodes[root].Handlers = MapPut(@, method, handler),
                       !.nodes[root].Pattern = path,
                       !.nodes[root].Middleware = mw]]
             ELSE LET segments == Split(Trim(path, "/"), "/")
                  IN  [err |-> checkDuplicates(segments, 1, EmptyMap),
                       tree |-> [t1 EXCEPT !.nodes =
                           insert(t1.nodes, root, segments, 1,
                                  method, handler, mw)]]
AddRoute(t, method, path, handler, mw) ==
    IF ~ValidPath(path)
    THEN [err |-> [NoErr EXCEPT !.msg = "invalid route path"], tree |-> t]
    ELSE LET t1 == IF MapHas(t.roots, method) THEN t
                   ELSE [roots |-> MapPut(t.roots, method, Len(t.nodes) + 1),
                         nodes |-> Append(t.nodes, Node(<<"/">>, Static, <<>>))]
             root == MapGet(t1.roots, method)
         IN  IF path = <<"/">>
             THEN [err |-> NoErr,
                   tree |-> [t1 EXCEPT
                       !.nodes[root].Handlers = MapPut(@, method, handler),
                       !.nodes[root].Pattern = path,
                       !.nodes[root].Middleware = mw]]
             ELSE LET segments == Split(Trim(path, "/"), "/")
                      dupErr == checkDuplicates(segments, 1, EmptyMap)
                  IN  IF dupErr # NoErr
                      THEN [err |-> dupErr, tree |-> t1]
                      ELSE [err |-> NoErr,
                            tree |-> [t1 EXCEPT !.nodes =
                                insert(t1.nodes, root, segments, 1,
                                       method, handler, mw)]]

----------------------------------------------------------------------------
(* package tree: lookup *)

NoMatch(params) ==
    [handler |-> NilHandler, middleware |-> <<>>, params |-> params]

(* search, line 194: the value bound to a wildcard *)
wildcardValueSkipOne(segments, index) ==
    Join(SubSeq(segments, index + 1, Len(segments)), "/")
wildcardValue(segments, index) ==
    Join(SubSeq(segments, index, Len(segments)), "/")

(* search: index is 1-based here; index = Len(segments)+1 is Go's           *)
(* index == len(segments).  params is the map shared by all recursive      *)
(* calls, so every result carries the map as the call left it.             *)
RECURSIVE search(_, _, _, _, _, _)
RECURSIVE searchChildren(_, _, _, _, _, _, _)

searchPrefixMatch(nodes, n, segments, index, params, method) ==
    IF MapHas(nodes[n].Handlers, method)
    THEN [handler |-> MapGet(nodes[n].Handlers, method),
          middleware |-> nodes[n].Middleware, params |-> params]
    ELSE IF index = Len(segments) + 1 THEN NoMatch(params)
    ELSE searchChildren(nodes, nodes[n].Children, 1, segments, index,
                        params, method)

search(nodes, n, segments, index, params, method) ==
    IF index = Len(segments) + 1
    THEN IF MapHas(nodes[n].Handlers, method)
         THEN [handler |-> MapGet(nodes[n].Handlers, method),
               middleware |-> nodes[n].Middleware, params |-> params]
         ELSE NoMatch(params)
    ELSE searchChildren(nodes, nodes[n].Children, 1, segments, index,
                        params, method)

searchChildrenWildcardDescends(nodes, children, k, segments, index, params, method) ==
    IF k > Len(children) THEN NoMatch(params)
    ELSE LET child == nodes[children[k]]
             segment == segments[index]
         IN
         CASE child.NType = Static ->
                IF child.Path = segment
                THEN LET r == search(nodes, children[k], segments, index + 1,
                                     params, method)
                     IN  IF r.handler # NilHandler THEN r
                         ELSE searchChildren(nodes, children, k + 1, segments,
                                             index, r.params, method)
                ELSE searchChildren(nodes, children, k + 1, segments, index,
                                    params, method)
           [] child.NType = Param ->
                LET r == search(nodes, children[k], segments, index + 1,
                                MapPut(params, child.ParamName, segment),
                                method)
                IN  IF r.handler # NilHandler THEN r
                    ELSE searchChildren(nodes, children, k + 1, segments,
                                        index,
                                        MapDel(r.params, child.ParamName),
                                        method)
           [] child.NType = Wildcard ->
                LET params1 == MapPut(params, child.ParamName,
                                      wildcardValue(segments, index))
                    below == search(nodes, children[k], segments, index + 1,
                                    params1, method)
                IN  IF below.handler # NilHandler THEN below
                    ELSE IF MapHas(child.Handlers, method)
                    THEN [handler |-> MapGet(child.Handlers, method),
                          middleware |-> child.Middleware,
                          params |-> params1]
                    ELSE searchChildren(nodes, children, k + 1, segments,
                                        index, params1, method)

searchChildren(nodes, children, k, segments, index, params, method) ==
    IF k > Len(children) THEN NoMatch(params)
    ELSE LET child == nodes[children[k]]
             segment == segments[index]
         IN
         CASE child.NType = Static ->
                IF child.Path = segment
                THEN LET r == search(nodes, children[k], segments, index + 1,
                                     params, method)
                     IN  IF r.handler # NilHandler THEN r
                         ELSE searchChildren(nodes, children, k + 1, segments,
                                             index, r.params, method)
                ELSE searchChildren(nodes, children, k + 1, segments, index,
                                    params, method)
           [] child.NType = Param ->
                LET r == search(nodes, children[k], segments, index + 1,
                                MapPut(params, child.ParamName, segment),
                                method)
                IN  IF r.handler # NilHandler THEN r
                    ELSE searchChildren(nodes, children, k + 1, segments,
                                        index,
                                        MapDel(r.params, child.ParamName),
                                        method)
           [] child.NType = Wildcard ->
                LET params1 == MapPut(params, child.ParamName,
                                      wildcardValue(segments, index))
                IN  IF MapHas(child.Handlers, method)
                    THEN [handler |-> MapGet(child.Handlers, method),
                          middleware |-> child.Middleware,
                          params |-> params1]
                    ELSE searchChildren(nodes, children, k + 1, segments,
                                        index, params1, method)

(* Tree.Find *)
Find(t, method, path) ==
    IF ~MapHas(t.roots, method) THEN NoMatch(EmptyMap)
    ELSE LET root == MapGet(t.roots, method) IN
         IF path = <<"/">>
         THEN IF MapHas(t.nodes[root].Handlers, method)
              THEN [handler |-> MapGet(t.nodes[root].Handlers, method),
                    middleware |-> t.nodes[root].Middleware,
                    params |-> EmptyMap]
              ELSE NoMatch(EmptyMap)
         ELSE search(t.nodes, root, Split(Trim(path, "/"), "/"), 1,
                     EmptyMap, method)

(* Tree.HasMethod: order is the order in which Go happens to iterate the   *)
(* roots map; the loop returns at the first method that matches.           *)
RECURSIVE hasMethodFrom(_, _, _, _)
hasMethodFrom(t, order, k, path) ==
    IF k > Len(order) THEN FALSE
    ELSE IF Find(t, order[k], path).handler # NilHandler THEN TRUE
    ELSE hasMethodFrom(t, order, k + 1, path)

hasMethodFirstOnly(t, order, path) ==
    Len(order) > 0 /\ Find(t, order[1], path).handler # NilHandler
HasMethod(t, order, path) == hasMethodFrom(t, order, 1, path)

----------------------------------------------------------------------------
(* package naming *)

NewRegistry == EmptyMap

(* Registry.Add *)
Add(routes, name, pattern, method) ==
    MapPut(routes, name, [Name |-> name, Pattern |-> pattern, Method |-> method])

(* strings.ReplaceAll(segment, "-", "_") *)
ReplaceAll(s, old, new) == [i \in 1..Len(s) |-> IF s[i] = old THEN new ELSE s[i]]

(* GenerateName, lines 66-76: the segments that do not start with ':' *)
RECURSIVE baseParts(_, _)
baseParts(segments, i) ==
    IF i > Len(segments) THEN <<>>
    ELSE IF Len(segments[i]) > 0 /\ segments[i][1] = ":"
         THEN baseParts(segments, i + 1)
         ELSE <<ReplaceAll(segments[i], "-", "_")>> \o baseParts(segments, i + 1)

(* GenerateName, lines 85-110: the action suffix, one token *)
actionOf(method, hasParams) ==
    CASE method = "GET" -> IF hasParams THEN "show" ELSE "index"
      [] method = "POST" -> "create"
      [] method \in {"PUT", "PATCH"} -> "update"
      [] method = "DELETE" -> "destroy"
      [] method = "HEAD" -> IF hasParams THEN "show" ELSE "index"
      [] method = "OPTIONS" -> "options"
      [] OTHER -> "lower"

(* GenerateName: <<>> is the empty string *)
GenerateName(path, method) ==
    LET trimmed == Trim(path, "/") IN
    IF trimmed = <<>> THEN <<>>
    ELSE LET segments == Split(trimmed, "/")
             parts == baseParts(segments, 1)
             hasParams == \E i \in 1..Len(segments) :
                              Len(segments[i]) > 0 /\ segments[i][1] = ":"
         IN  IF Len(parts) = 0 THEN <<>>
             ELSE Join(parts, "_") \o <<"_">> \o <<actionOf(method, hasParams)>>

----------------------------------------------------------------------------
(* context.go: responseWriter and Context.  Code and Body are the status   *)
(* and the body chunks received by the wrapped http.ResponseWriter; Code 0 *)
(* means that no status has been sent yet.                                 *)

StatusOK == 200
StatusUnauthorized == 401
StatusNotFound == 404
StatusMethodNotAllowed == 405
StatusInternalServerError == 500

newContext ==
    [Params |-> EmptyMap, status |-> StatusOK, wroteHeader |-> FALSE,
     Code |-> 0, Body |-> <<>>, trace |-> <<>>, hooks |-> <<>>]

(* responseWriter.WriteHeader *)
WriteHeaderOverwrites(c, code) ==
    [c EXCEPT !.status = code, !.wroteHeader = TRUE, !.Code = code]
WriteHeader(c, code) ==
    IF ~c.wroteHeader
    THEN [c EXCEPT !.status = code, !.wroteHeader = TRUE, !.Code = code]
    ELSE c

(* responseWriter.Write *)
Write(c, b) ==
    LET c1 == IF ~c.wroteHeader THEN WriteHeader(c, StatusOK) ELSE c
    IN  [c1 EXCEPT !.Body = Append(@, b)]

IsHeaderWritten(c) == c.wroteHeader

(* Context.JSON and Context.String: status, then the payload *)
JSON(c, status, data) == Write(WriteHeader(c, status), data)
String(c, status, data) == Write(WriteHeader(c, status), data)

----------------------------------------------------------------------------
(* Handlers and middleware are closures supplied by the application.  A    *)
(* closure is identified by its creation stamp 1, 2, ...; what its body    *)
(* does with one request is an input of that request: env.hbeh is what the *)
(* route handler does, env.deny the middleware that rejects the request    *)
(* instead of calling next (0: every middleware calls next).  env.hook is   *)
(* the pair of hooks the application has installed in Router.NotFound and  *)
(* Router.MethodNotAllowed: the default ones, or ones that fail.           *)
(* c.trace logs the closures entered and left, c.hooks the calls that      *)
(* ServeHTTP itself makes with the request's context.                      *)

NoError == "nil"

Event(c, id, what) == [c EXCEPT !.trace = Append(@, <<id, what>>)]

Called(c, what) == [c EXCEPT !.hooks = Append(@, what)]

(* a route handler: HandlerFunc *)
runHandler(h, c, env) ==
    LET c0 == Event(c, h, "handler") IN
    CASE env.hbeh = "ok" ->
            [ctx |-> String(c0, StatusOK, <<"OK">>), err |-> NoError]
      [] env.hbeh = "fail" ->
            [ctx |-> c0, err |-> "early error"]
      [] env.hbeh = "writefail" ->
            [ctx |-> Write(WriteHeader(c0, StatusOK), <<"Success">>),
             err |-> "error after headers sent"]

(* finalHandler(c): chain is the composed handler, outermost wrapper first *)
RECURSIVE invoke(_, _, _, _)
invoke(chain, h, c, env) ==
    IF chain = <<>> THEN runHandler(h, c, env)
    ELSE LET mw == Head(chain)
             c0 == Event(c, mw, "before")
         IN  IF mw # env.deny
             THEN LET r == invoke(Tail(chain), h, c0, env)
                  IN  [ctx |-> Event(r.ctx, mw, "after"), err |-> r.err]
             ELSE [ctx |-> JSON(c0, StatusUnauthorized,
                                <<"error", "unauthorized">>),
                   err |-> "denied"]

(* Router.New: the default hooks *)
NotFound(c) == [ctx |-> JSON(c, StatusNotFound, <<"error", "Not Found">>), err |-> NoError]

MethodNotAllowed(c) ==
    [ctx |-> JSON(c, StatusMethodNotAllowed, <<"error", "Method Not Allowed">>),
     err |-> NoError]

(* r.NotFound(c) and r.MethodNotAllowed(c) as ServeHTTP calls them *)
callNotFound(c, env) ==
    LET c0 == Called(c, <<"NotFound">>) IN
    IF env.hook = "default" THEN NotFound(c0)
    ELSE [ctx |-> c0, err |-> "hook failed"]

callMethodNotAllowed(c, env) ==
    LET c0 == Called(c, <<"MethodNotAllowed">>) IN
    IF env.hook = "default" THEN MethodNotAllowed(c0)
    ELSE [ctx |-> c0, err |-> "hook failed"]

ErrorHandlerGeneric(c, err) ==
    IF IsHeaderWritten(c) THEN c
    ELSE JSON(c, StatusInternalServerError, <<"error", "Internal Server Error">>)
ErrorHandlerAlwaysWrites(c, err) ==
    JSON(c, StatusInternalServerError, <<"error", err>>)
ErrorHandler(c, err) ==
    IF IsHeaderWritten(c) THEN c
    ELSE JSON(c, StatusInternalServerError, <<"error", err>>)

(* ServeHTTP: for i := len(list)-1; i >= 0; i-- { final = list[i](final) } *)
RECURSIVE wrapAllInside(_, _, _)
wrapAllInside(list, i, chain) ==
    IF i < 1 THEN chain
    ELSE wrapAllInside(list, i - 1, chain \o <<list[i]>>)
RECURSIVE wrapAll(_, _, _)
wrapAll(list, i, chain) ==
    IF i < 1 THEN chain
    ELSE wrapAll(list, i - 1, <<list[i]>> \o chain)

(* ServeHTTP: route middleware innermost, global middleware outermost *)
compose(global, routeMiddleware) ==
    wrapAll(global, Len(global),
            wrapAll(routeMiddleware, Len(routeMiddleware), <<>>))

(* Group.HandleNamed / Group.Group: group middleware, then the new ones *)
combineRouteFirst(groupMw, mw) == mw \o groupMw
combine(groupMw, mw) == groupMw \o mw

----------------------------------------------------------------------------
(* package router: registration *)

handleIgnoresName(t, routes, method, path, handler, name, mw) ==
    LET res == AddRoute(t, method, path, handler, mw) IN
    IF res.err # NoErr
    THEN [tree |-> res.tree, names |-> routes, err |-> res.err]
    ELSE LET name1 == GenerateName(path, method)
         IN  [tree |-> res.tree,
              names |-> IF name1 # <<>> THEN Add(routes, name1, path, method)
                        ELSE routes,
              err |-> NoErr]

(* Router.handle: AddRoute, panic on error, else name the route.  The      *)
(* result carries the tree and the registry as the call leaves them; err   *)
(* other than NoErr is the value the call panics with.                     *)
handle(t, routes, method, path, handler, name, mw) ==
    LET res == AddRoute(t, method, path, handler, mw) IN
    IF res.err # NoErr
    THEN [tree |-> res.tree, names |-> routes, err |-> res.err]
    ELSE LET name1 == IF name = <<>> THEN GenerateName(path, method) ELSE name
         IN  [tree |-> res.tree,
              names |-> IF name1 # <<>> THEN Add(routes, name1, path, method)
                        ELSE routes,
              err |-> NoErr]

(* the closures created by one call, stamped in creation order *)
closures(n, from) == [i \in 1..n |-> from + i]

(* the controller and the Only / Except options of a Resources call *)
NoArg == [impl |-> {}, only |-> {}, except |-> {}]

Call(op, recv, made, method, path, handler, name, mw, err) ==
    [op |-> op, recv |-> recv, made |-> made, method |-> method,
     path |-> path, given |-> path, handler |-> handler, name |-> name,
     mw |-> mw, err |-> err, arg |-> NoArg]

NumRoutes == Cardinality({i \in 1..Len(calls) : calls[i].op = "handle"})

(* r.Get / r.Post / ... (path, handler, WithName(name), WithMiddleware(mw...)) *)
Handle(method, path, name, n) ==
    /\ ~started
    /\ LET handler == nextId + 1
           mw == closures(n, nextId + 1)
           res == handle(tree, names, method, path, handler, name, mw)
       IN  /\ tree' = res.tree
           /\ names' = res.names
           /\ calls' = Append(calls, Call("handle", 0, 0, method, path,
                                          handler, name, mw, res.err))
           /\ nextId' = nextId + 1 + n
    /\ UNCHANGED <<middleware, groups, started, last, reqs, ctxs>>

(* Router.Use *)
UseReplaces(n) ==
    /\ ~started
    /\ LET mw == closures(n, nextId)
       IN  /\ middleware' = mw
           /\ calls' = Append(calls, Call("Use", 0, 0, "", <<>>, NilHandler,
                                          <<>>, mw, NoErr))
           /\ nextId' = nextId + n
    /\ UNCHANGED <<tree, names, groups, started, last, reqs, ctxs>>
Use(n) ==
    /\ ~started
    /\ LET mw == closures(n, nextId)
       IN  /\ middleware' = middleware \o mw
           /\ calls' = Append(calls, Call("Use", 0, 0, "", <<>>, NilHandler,
                                          <<>>, mw, NoErr))
           /\ nextId' = nextId + n
    /\ UNCHANGED <<tree, names, groups, started, last, reqs, ctxs>>

(* Router.Group *)
Group(prefix, n) ==
    /\ ~started
    /\ Len(groups) < MaxGroups
    /\ LET mw == closures(n, nextId)
       IN  /\ groups' = Append(groups, [prefix |-> prefix, middleware |-> mw])
           /\ calls' = Append(calls, Call("Group", 0, Len(groups) + 1, "",
                                          prefix, NilHandler, <<>>, mw, NoErr))
           /\ nextId' = nextId + n
    /\ UNCHANGED <<tree, names, middleware, started, last, reqs, ctxs>>

(* Group.Use *)
GroupUse(g, n) ==
    /\ ~started
    /\ g \in 1..Len(groups)
    /\ LET mw == closures(n, nextId)
       IN  /\ groups' = [groups EXCEPT ![g].middleware = @ \o mw]
           /\ calls' = Append(calls, Call("GroupUse", g, 0, "", <<>>,
                                          NilHandler, <<>>, mw, NoErr))
           /\ nextId' = nextId + n
    /\ UNCHANGED <<tree, names, middleware, started, last, reqs, ctxs>>

(* Group.Group *)
GroupGroup(g, prefix, n) ==
    /\ ~started
    /\ g \in 1..Len(groups)
    /\ Len(groups) < MaxGroups
    /\ LET mw == closures(n, nextId)
       IN  /\ groups' = Append(groups,
                   [prefix |-> groups[g].prefix \o prefix,
                    middleware |-> combine(groups[g].middleware, mw)])
           /\ calls' = Append(calls, Call("GroupGroup", g, Len(groups) + 1, "",
                                          prefix, NilHandler, <<>>, mw, NoErr))
           /\ nextId' = nextId + n
    /\ UNCHANGED <<tree, names, middleware, started, last, reqs, ctxs>>

(* Group.HandleNamed, reached from g.Get / g.Post / ... *)
GroupHandleNamed(g, method, path, name, n) ==
    /\ ~started
    /\ g \in 1..Len(groups)
    /\ LET handler == nextId + 1
           mw == closures(n, nextId + 1)
           fullPath == groups[g].prefix \o path
           allMiddleware == combine(groups[g].middleware, mw)
           res == handle(tree, names, method, fullPath, handler, name,
                         allMiddleware)
       IN  /\ tree' = res.tree
           /\ names' = res.names
           /\ calls' = Append(calls,
                  [Call("handle", g, 0, method, fullPath, handler, name, mw,
                        res.err) EXCEPT !.given = path])
           /\ nextId' = nextId + 1 + n
    /\ UNCHANGED <<middleware, groups, started, last, reqs, ctxs>>

----------------------------------------------------------------------------
(* package router: resources *)

AllResourceActions ==
    <<"index", "new", "create", "show", "edit", "update", "delete">>

(* resourceConfig.shouldIncludeAction *)
shouldIncludeActionExceptFirst(cfg, action) ==
    IF cfg.except # {} THEN action \notin cfg.except
    ELSE IF cfg.only # {} THEN action \in cfg.only
    ELSE TRUE
shouldIncludeAction(cfg, action) ==
    IF cfg.only # {} THEN action \in cfg.only
    ELSE IF cfg.except # {} THEN action \notin cfg.except
    ELSE TRUE

actionRoute(method, path, action) ==
    [method |-> method, path |-> path, action |-> action]

getResourceRoutesShowFirst(basePath) ==
    << actionRoute("GET", basePath, "index"),
       actionRoute("GET", basePath \o <<"/", ":", "i", "d">>, "show"),
       actionRoute("GET", basePath \o <<"/", "n", "e", "w">>, "new"),
       actionRoute("POST", basePath, "create"),
       actionRoute("GET", basePath \o <<"/", ":", "i", "d", "/", "e", "d", "i", "t">>, "edit"),
       actionRoute("PATCH", basePath \o <<"/", ":", "i", "d">>, "update"),
       actionRoute("PUT", basePath \o <<"/", ":", "i", "d">>, "update"),
       actionRoute("DELETE", basePath \o <<"/", ":", "i", "d">>, "delete") >>
getResourceRoutes(basePath) ==
    << actionRoute("GET", basePath, "index"),
       actionRoute("GET", basePath \o <<"/", "n", "e", "w">>, "new"),
       actionRoute("POST", basePath, "create"),
       actionRoute("GET", basePath \o <<"/", ":", "i", "d", "/", "e", "d", "i", "t">>, "edit"),
       actionRoute("GET", basePath \o <<"/", ":", "i", "d">>, "show"),
       actionRoute("PATCH", basePath \o <<"/", ":", "i", "d">>, "update"),
       actionRoute("PUT", basePath \o <<"/", ":", "i", "d">>, "update"),
       actionRoute("DELETE", basePath \o <<"/", ":", "i", "d">>, "delete") >>

(* the controller's method value for an action; its methods are the        *)
(* closures base+1 .. base+7, in the order of AllResourceActions           *)
getControllerHandler(controller, action) ==
    IF action \in controller.impl
    THEN controller.base
         + (CHOOSE k \in 1..Len(AllResourceActions) : AllResourceActions[k] = action)
    ELSE NilHandler

(* path[idx+1:] with idx := strings.LastIndex(path, "/") *)
RECURSIVE resourceNameOf(_)
resourceNameOf(path) ==
    IF \A k \in 1..Len(path) : path[k] # "/" THEN path
    ELSE resourceNameOf(Tail(path))

(* Resources: the loop over routes from index k on.  st is the tree, the   *)
(* registry and the panic value, if any, that ended the loop.              *)
RECURSIVE registerResource(_, _, _, _, _, _, _, _)
registerResource(st, routes, k, config, controller, requireAll, path, mw) ==
    IF k > Len(routes) THEN st
    ELSE LET route == routes[k]
             handler == getControllerHandler(controller, route.action)
             routeName == resourceNameOf(path) \o <<"_">> \o <<route.action>>
         IN  IF ~shouldIncludeAction(config, route.action)
             THEN registerResource(st, routes, k + 1, config, controller,
                                   requireAll, path, mw)
             ELSE IF handler = NilHandler
             THEN IF requireAll
                  THEN [st EXCEPT !.err = [NoErr EXCEPT !.msg = "missing method",
                                                        !.param = <<route.action>>]]
                  ELSE registerResource(st, routes, k + 1, config, controller,
                                        requireAll, path, mw)
             ELSE LET res == handle(st.tree, st.names, route.method, route.path,
                                    handler, routeName, mw)
                  IN  IF res.err # NoErr THEN res
                      ELSE registerResource(res, routes, k + 1, config,
                                            controller, requireAll, path, mw)

(* Router.Resources(path, controller, Only(only...), Except(except...),     *)
(* WithResourceMiddleware(n closures))                                     *)
Resources(path, impl, only, except, n) ==
    /\ ~started
    /\ LET controller == [impl |-> impl, base |-> nextId]
           config == [only |-> only, except |-> except]
           mw == closures(n, nextId + Len(AllResourceActions))
           requireAll == only = {} /\ except = {}
           res == registerResource([tree |-> tree, names |-> names, err |-> NoErr],
                                   getResourceRoutes(path), 1, config,
                                   controller, requireAll, path, mw)
       IN  /\ tree' = res.tree
           /\ names' = res.names
           /\ calls' = Append(calls,
                  [Call("Resources", 0, 0, "", path, nextId, <<>>, mw, res.err)
                      EXCEPT !.arg = [impl |-> impl, only |-> only,
                                      except |-> except]])
           /\ nextId' = nextId + Len(AllResourceActions) + n
    /\ UNCHANGED <<middleware, groups, started, last, reqs, ctxs>>

(* Group.Resources: the group's middleware and prefix are put in front; a  *)
(* controller method that is missing is skipped                            *)
GroupResources(g, path, impl, only, except, n) ==
    /\ ~started
    /\ g \in 1..Len(groups)
    /\ LET controller == [impl |-> impl, base |-> nextId]
           config == [only |-> only, except |-> except]
           mw == closures(n, nextId + Len(AllResourceActions))
           allMiddleware == combine(groups[g].middleware, mw)
           fullPath == groups[g].prefix \o path
           res == registerResource([tree |-> tree, names |-> names, err |-> NoErr],
                                   getResourceRoutes(fullPath), 1, config,
                                   controller, FALSE, path, allMiddleware)
       IN  /\ tree' = res.tree
           /\ names' = res.names
           /\ calls' = Append(calls,
                  [Call("Resources", g, 0, "", fullPath, nextId, <<>>, mw, res.err)
                      EXCEPT !.given = path,
                             !.arg = [impl |-> impl, only |-> only,
                                      except |-> except]])
           /\ nextId' = nextId + Len(AllResourceActions) + n
    /\ UNCHANGED <<middleware, groups, started, last, reqs, ctxs>>

(* Router.Serve: registration is over, the router accepts requests *)
Serve ==
    /\ ~started
    /\ started' = TRUE
    /\ UNCHANGED <<tree, names, middleware, groups, calls, nextId, last, reqs, ctxs>>

----------------------------------------------------------------------------
(* package router: dispatch *)

(* the orders in which a range over a Go map can visit the keys S *)
RECURSIVE Perms(_)
Perms(S) ==
    IF S = {} THEN {<<>>}
    ELSE UNION {{<<x>> \o p : p \in Perms(S \ {x})} : x \in S}

NoEnv == [hbeh |-> "ok", deny |-> 0, hook |-> "default"]

NoRequest ==
    [outcome |-> "none", method |-> "", path |-> <<>>, handler |-> NilHandler,
     params |-> EmptyMap, middleware |-> <<>>, env |-> NoEnv,
     err |-> NoError, returned |-> newContext, ctx |-> newContext]

(* if err := ...; err != nil && r.ErrorHandler != nil { r.ErrorHandler(c, err) } *)
finishAlways(r) == ErrorHandler(Called(r.ctx, <<"ErrorHandler", r.err>>), r.err)
finish(r) ==
    IF r.err # NoError
    THEN ErrorHandler(Called(r.ctx, <<"ErrorHandler", r.err>>), r.err)
    ELSE r.ctx

(* ServeHTTP, handler == nil: Method Not Allowed and return, or Not Found.  *)
(* The result is the hook that ran last, what it returned, and the context *)
(* in the end.                                                             *)
missingFallsThrough(t, order, path, c, env) ==
    IF HasMethod(t, order, path)
    THEN LET r1 == callMethodNotAllowed(c, env)
             r2 == callNotFound(finish(r1), env)
         IN  [outcome |-> "MethodNotAllowed", r |-> r2, ctx |-> finish(r2)]
    ELSE LET r == callNotFound(c, env)
         IN  [outcome |-> "NotFound", r |-> r, ctx |-> finish(r)]
missingThroughGlobal(t, order, path, c, env) ==
    LET c1 == [c EXCEPT !.trace = @ \o [k \in 1..Len(middleware) |->
                                            <<middleware[k], "before">>]]
    IN  IF HasMethod(t, order, path)
        THEN LET r == callMethodNotAllowed(c1, env)
             IN  [outcome |-> "MethodNotAllowed", r |-> r, ctx |-> finish(r)]
        ELSE LET r == callNotFound(c1, env)
             IN  [outcome |-> "NotFound", r |-> r, ctx |-> finish(r)]
missing(t, order, path, c, env) ==
    IF HasMethod(t, order, path)
    THEN LET r == callMethodNotAllowed(c, env)
         IN  [outcome |-> "MethodNotAllowed", r |-> r, ctx |-> finish(r)]
    ELSE LET r == callNotFound(c, env)
         IN  [outcome |-> "NotFound", r |-> r, ctx |-> finish(r)]

(* Router.ServeHTTP for one request; order is Go's iteration order over    *)
(* the roots map inside HasMethod.  returned is the response as it stood   *)
(* when the hook or the chain returned, ctx the response in the end.       *)
dispatch(t, global, method, path, order, env) ==
    LET c == newContext
        f == Find(t, method, path)
    IN  IF f.handler = NilHandler
        THEN LET m == missing(t, order, path, c, env) IN
             [NoRequest EXCEPT !.outcome = m.outcome,
                 !.method = method, !.path = path, !.env = env,
                 !.err = m.r.err, !.returned = m.r.ctx, !.ctx = m.ctx]
        ELSE LET c1 == [c EXCEPT !.Params = f.params]
                 finalHandler == compose(global, f.middleware)
                 r == invoke(finalHandler, f.handler, Called(c1, <<"chain">>), env)
             IN  [outcome |-> "route", method |-> method, path |-> path,
                  handler |-> f.handler, params |-> f.params,
                  middleware |-> f.middleware, env |-> env, err |-> r.err,
                  returned |-> r.ctx, ctx |-> finish(r)]

ServeHTTPCreatesRoot(method, path, env) ==
    /\ started
    /\ \E order \in Perms(MapKeys(tree.roots)) :
           last' = dispatch(tree, middleware, method, path, order, env)
    /\ tree' = IF MapHas(tree.roots, method) THEN tree
               ELSE [roots |-> MapPut(tree.roots, method, Len(tree.nodes) + 1),
                     nodes |-> Append(tree.nodes, Node(<<"/">>, Static, <<>>))]
    /\ UNCHANGED <<names, middleware, groups, calls, nextId, started, reqs, ctxs>>
ServeHTTP(method, path, env) ==
    /\ started
    /\ \E order \in Perms(MapKeys(tree.roots)) :
           last' = dispatch(tree, middleware, method, path, order, env)
    /\ UNCHANGED <<tree, names, middleware, groups, calls, nextId, started, reqs, ctxs>>

----------------------------------------------------------------------------
(* package router: requests served concurrently.  net/http runs ServeHTTP  *)
(* in one goroutine per request; the steps of one call are the allocation  *)
(* of its Context, the lookup with the write of c.Params, the run of the   *)
(* composed chain, and the error hook.  c is a pointer into ctxs.          *)

Idle ==
    [pc |-> "idle", method |-> "", path |-> <<>>, env |-> NoEnv, c |-> 0,
     handler |-> NilHandler, middleware |-> <<>>, seen |-> EmptyMap,
     err |-> NoError]

(* c := newContext(w, req): return &Context{...}, a fresh object *)
allocPooled(cs) ==
    IF cs = <<>> THEN [ctxs |-> <<newContext>>, c |-> 1]
    ELSE [ctxs |-> [cs EXCEPT ![1] = newContext], c |-> 1]
alloc(cs) == [ctxs |-> Append(cs, newContext), c |-> Len(cs) + 1]

(* ServeHTTP, lines 405-410 *)
Begin(i, method, path, env) ==
    /\ started
    /\ reqs[i].pc = "idle"
    /\ LET a == alloc(ctxs)
       IN  /\ ctxs' = a.ctxs
           /\ reqs' = [reqs EXCEPT ![i] =
                  [Idle EXCEPT !.pc = "created", !.method = method,
                               !.path = path, !.env = env, !.c = a.c]]
    /\ UNCHANGED <<tree, names, middleware, groups, calls, nextId, started, last>>

(* ServeHTTP, lines 412-432: Find, then the hook and return, or c.Params = params *)
Route(i) ==
    /\ reqs[i].pc = "created"
    /\ LET r == reqs[i]
           f == Find(tree, r.method, r.path)
       IN  IF f.handler = NilHandler
           THEN \E order \in Perms(MapKeys(tree.roots)) :
                  /\ ctxs' = [ctxs EXCEPT ![r.c] =
                         missing(tree, order, r.path, ctxs[r.c], r.env).ctx]
                  /\ reqs' = [reqs EXCEPT ![i].pc = "done"]
           ELSE /\ ctxs' = [ctxs EXCEPT ![r.c].Params = f.params]
                /\ reqs' = [reqs EXCEPT ![i].pc = "found",
                                        ![i].handler = f.handler,
                                        ![i].middleware = f.middleware]
    /\ UNCHANGED <<tree, names, middleware, groups, calls, nextId, started, last>>

(* ServeHTTP, lines 434-455: compose the chain and run it; the handler     *)
(* reads c.Params                                                          *)
RunChain(i) ==
    /\ reqs[i].pc = "found"
    /\ LET r == reqs[i]
           finalHandler == compose(middleware, r.middleware)
           res == invoke(finalHandler, r.handler,
                         Called(ctxs[r.c], <<"chain">>), r.env)
       IN  /\ ctxs' = [ctxs EXCEPT ![r.c] = res.ctx]
           /\ reqs' = [reqs EXCEPT ![i].seen = ctxs[r.c].Params,
                                   ![i].err = res.err,
                                   ![i].pc = IF res.err # NoError
                                             THEN "failed" ELSE "done"]
    /\ UNCHANGED <<tree, names, middleware, groups, calls, nextId, started, last>>

(* ServeHTTP, lines 455-457: r.ErrorHandler(c, err) *)
HandleError(i) ==
    /\ reqs[i].pc = "failed"
    /\ LET r == reqs[i]
       IN  /\ ctxs' = [ctxs EXCEPT ![r.c] =
                  finish([ctx |-> ctxs[r.c], err |-> r.err])]
           /\ reqs' = [reqs EXCEPT ![i].pc = "done"]
    /\ UNCHANGED <<tree, names, middleware, groups, calls, nextId, started, last>>

----------------------------------------------------------------------------
(* Inputs *)

Methods == {"GET", "POST"}

Patterns ==
    { <<"/">>,
      <<"/", "a">>,
      <<"/", "a", "/", "b">>,
      <<"/", "a", "/", ":", "x">>,
      <<"/", "a", "/", "*", "x">>,
      <<"/", "a", "/", ":", "x", "/", "b">>,
      <<"/", "a", "/", ":", "x", "/", ":", "y">>,
      <<"/", "a", "/", "*", "y", "/", "b">>,
      <<"/", "a", "/", ":", "x", "/", ":", "x">>,
      <<"/", "a", "/", ":", "x", "/", "*", "x">>,
      <<>>,
      <<"a">> }

Paths ==
    { <<"/">>,
      <<"/", "a">>,
      <<"/", "a", "/", "b">>,
      <<"/", "a", "/", "c">>,
      <<"/", "a", "/", "c", "/", "b">>,
      <<"/", "a", "/", "c", "/", "d">>,
      <<"/", "a", "/", "/", "b">>,
      <<"/", "a", "/", "b", "/">> }

----------------------------------------------------------------------------
(* Specification of the route tree: routes without middleware *)

Init ==
    /\ tree = New
    /\ names = NewRegistry
    /\ middleware = <<>>
    /\ groups = <<>>
    /\ calls = <<>>
    /\ nextId = 0
    /\ started = FALSE
    /\ last = NoRequest
    /\ reqs = [i \in 1..MaxRequests |-> Idle]
    /\ ctxs = <<>>

Next ==
    \/ /\ NumRoutes < MaxRoutes
       /\ \E method \in Methods, path \in Patterns :
              Handle(method, path, <<>>, 0)
    \/ Serve
    \/ \E method \in Methods, path \in Paths : ServeHTTP(method, path, NoEnv)

Spec == Init /\ [][Next]_vars

----------------------------------------------------------------------------
(* Vocabulary of the properties *)

Segments(path) == Split(Trim(path, "/"), "/")

Served == last.outcome # "none"
Routed == last.outcome = "route"

NodeIds == 1..Len(tree.nodes)

ChildrenOf(n) == {tree.nodes[n].Children[k] : k \in 1..Len(tree.nodes[n].Children)}

(* the node whose handler answered the last request *)
HitNode ==
    CHOOSE n \in NodeIds : <<last.method, last.handler>> \in tree.nodes[n].Handlers

(* n lies below a, or is a *)
RECURSIVE Below(_, _)
Below(n, a) == n = a \/ \E c \in ChildrenOf(a) : Below(n, c)

(* the lookup of segs, having consumed segs[1..i-1] along matching static  *)
(* and parameter nodes, can stand at node n                                *)
RECURSIVE OnTrail(_, _, _, _)
OnTrail(n, segs, i, method) ==
    IF i = 1
    THEN <<method, n>> \in tree.roots
    ELSE \E p \in NodeIds :
            /\ n \in ChildrenOf(p)
            /\ \/ tree.nodes[n].NType = Static /\ tree.nodes[n].Path = segs[i - 1]
               \/ tree.nodes[n].NType = Param
            /\ OnTrail(p, segs, i - 1, method)

(* the subtree of child c matches the rest of the path *)
Succeeds(c, segs, i, method) ==
    search(tree.nodes, c, segs, i, EmptyMap, method).handler # NilHandler

StartsWithSlash(path) == Len(path) >= 1 /\ Head(path) = "/"

IsBinder(seg) == Len(seg) >= 1 /\ Head(seg) \in {":", "*"}

(* the path with its first n segments, and the slashes after them, removed *)
RECURSIVE DropSegments(_, _)
DropSegments(s, n) ==
    IF n = 0 \/ s = <<>> THEN s
    ELSE IF Head(s) = "/" THEN DropSegments(Tail(s), n - 1)
    ELSE DropSegments(Tail(s), n)

(* the bindings a pattern gives on a path it matches *)
ExpectedParams(pattern, path) ==
    LET psegs == Segments(pattern)
        segs == Segments(path)
    IN  { <<Tail(psegs[k]),
            IF Head(psegs[k]) = ":" THEN segs[k]
            ELSE DropSegments(Trim(path, "/"), k - 1)>> :
          k \in {j \in 1..Len(psegs) : IsBinder(psegs[j])} }

HasDuplicate(pattern) ==
    LET psegs == Segments(pattern) IN
    \E i, j \in 1..Len(psegs) :
        i < j /\ IsBinder(psegs[i]) /\ IsBinder(psegs[j])
              /\ Tail(psegs[i]) = Tail(psegs[j])

RepeatedNames(pattern) ==
    LET psegs == Segments(pattern) IN
    { Tail(psegs[i]) : i \in {k \in 1..Len(psegs) :
        \E j \in 1..Len(psegs) :
            j # k /\ IsBinder(psegs[k]) /\ IsBinder(psegs[j])
                  /\ Tail(psegs[k]) = Tail(psegs[j])} }

Registrations == {i \in 1..Len(calls) : calls[i].op = "handle"}

----------------------------------------------------------------------------
(* Properties of the route tree *)

(* C1: when the lookup stands at a node where a literal child matches the  *)
(* current segment and leads to a match of the whole path, and a parameter *)
(* child leads to a match too, the request is not answered by a route      *)
(* below the parameter child, whatever the registration order was.         *)
C1_LiteralBeatsParam ==
    Routed /\ last.path # <<"/">> =>
        LET segs == Segments(last.path) IN
        \A n \in NodeIds, i \in 1..Len(segs) :
            \A s, p \in ChildrenOf(n) :
                ( /\ OnTrail(n, segs, i, last.method)
                  /\ tree.nodes[s].NType = Static
                  /\ tree.nodes[s].Path = segs[i]
                  /\ Succeeds(s, segs, i + 1, last.method)
                  /\ tree.nodes[p].NType = Param
                  /\ Succeeds(p, segs, i + 1, last.method) )
                => ~Below(HitNode, p)

(* C2: when the lookup stands at a node with a wildcard child and with a   *)
(* literal or parameter child that leads to a match of the whole path, the *)
(* request is not answered by the wildcard route, whatever the             *)
(* registration order was.                                                 *)
C2_WildcardLast ==
    Routed /\ last.path # <<"/">> =>
        LET segs == Segments(last.path) IN
        \A n \in NodeIds, i \in 1..Len(segs) :
            \A w, c \in ChildrenOf(n) :
                ( /\ OnTrail(n, segs, i, last.method)
                  /\ tree.nodes[w].NType = Wildcard
                  /\ \/ tree.nodes[c].NType = Static /\ tree.nodes[c].Path = segs[i]
                     \/ tree.nodes[c].NType = Param
                  /\ Succeeds(c, segs, i + 1, last.method) )
                => HitNode # w

(* C3: the parameter map of a matched request holds exactly the names of   *)
(* the matched pattern, each bound to the aligned part of the path.        *)
C3_NoStaleBindings ==
    Routed => last.params = ExpectedParams(tree.nodes[HitNode].Pattern, last.path)

C5_DuplicateRejected ==
    \A i \in Registrations :
        LET call == calls[i] IN
        StartsWithSlash(call.path) =>
            IF HasDuplicate(call.path)
            THEN /\ call.err.msg = "duplicate parameter"
                 /\ call.err.param \in RepeatedNames(call.path)
            ELSE /\ call.err = NoErr
                 /\ i = Len(calls) =>
                        \E n \in NodeIds :
                            <<call.method, call.handler>> \in tree.nodes[n].Handlers

C5_Witness ==
    \E i \in Registrations :
        /\ calls[i].path = <<"/", "a", "/", ":", "x", "/", "*", "x">>
        /\ calls[i].err.msg = "duplicate parameter"
        /\ calls[i].err.param = <<"x">>

(* C6: a registration whose pattern does not begin with '/' (the empty     *)
(* pattern included) panics and adds nothing to the tree or the registry.  *)
C6_BadPathRejected ==
    [][ ( /\ Len(calls') = Len(calls) + 1
          /\ calls'[Len(calls')].op = "handle"
          /\ ~StartsWithSlash(calls'[Len(calls')].path) )
        => ( /\ calls'[Len(calls')].err # NoErr
             /\ tree' = tree
             /\ names' = names ) ]_vars

C6_Witness ==
    /\ \E i \in Registrations : calls[i].path = <<>> /\ calls[i].err # NoErr
    /\ \E i \in Registrations : calls[i].path = <<"a">> /\ calls[i].err # NoErr

(* C7: a request that matches no route of its method gets Method Not       *)
(* Allowed exactly when its path matches under another method, and Not     *)
(* Found otherwise, whatever order the per-method trees are visited in.    *)
C7_MethodIsolation ==
    Served =>
        LET own == Find(tree, last.method, last.path).handler # NilHandler
            other == \E m \in Methods \ {last.method} :
                         Find(tree, m, last.path).handler # NilHandler
        IN  /\ last.outcome = "route" <=> own
            /\ last.outcome = "MethodNotAllowed" <=> (~own /\ other)
            /\ last.outcome = "NotFound" <=> (~own /\ ~other)

C7_Witness ==
    /\ last.outcome = "MethodNotAllowed"
    /\ Cardinality(tree.roots) = 2
    /\ last.ctx.Code = StatusMethodNotAllowed

----------------------------------------------------------------------------
(* Specification of the dispatcher: one pattern, groups and middleware *)

HandlerBehs == {"ok", "fail", "writefail"}

(* how many middleware closures one call passes *)
RouteArgs == {0, 1, 2}
GroupArgs == {0, 1}

RoutePath == <<"/", "a">>
Prefix == <<"/", "g">>

MwPaths == {RoutePath, Prefix \o RoutePath, Prefix \o Prefix \o RoutePath}

(* what the closures do with one request: the handler runs and does hbeh,  *)
(* or one middleware rejects the request                                   *)
Envs ==
    [hbeh : HandlerBehs, deny : {0}, hook : {"default"}]
        \cup [hbeh : {"ok"}, deny : 1..nextId, hook : {"default"}]

NextMW ==
    \/ /\ Len(calls) < MaxCalls
       /\ NumRoutes < MaxMwRoutes
       /\ \E n \in RouteArgs : Handle("GET", RoutePath, <<>>, n)
    \/ /\ Len(calls) < MaxCalls
       /\ Use(1)
    \/ /\ Len(calls) < MaxCalls
       /\ \E n \in GroupArgs : Group(Prefix, n)
    \/ /\ Len(calls) < MaxCalls
       /\ \E g \in 1..MaxGroups : GroupUse(g, 1)
    \/ /\ Len(calls) < MaxCalls
       /\ \E g \in 1..MaxGroups, n \in GroupArgs : GroupGroup(g, Prefix, n)
    \/ /\ Len(calls) < MaxCalls
       /\ NumRoutes < MaxMwRoutes
       /\ \E g \in 1..MaxGroups, n \in RouteArgs :
              GroupHandleNamed(g, "GET", RoutePath, <<>>, n)
    \/ Serve
    \/ \E path \in MwPaths, env \in Envs : ServeHTTP("GET", path, env)

SpecMW == Init /\ [][NextMW]_vars

----------------------------------------------------------------------------
(* Properties of the dispatcher *)

Reverse(list) == [k \in 1..Len(list) |-> list[Len(list) + 1 - k]]
Range(list) == {list[k] : k \in 1..Len(list)}

Before(list) == [k \in 1..Len(list) |-> <<list[k], "before">>]
After(list) == [k \in 1..Len(list) |-> <<list[k], "after">>]

(* the run of handler h inside the wrappers list, first of list outermost *)
Onion(list, h) ==
    Before(list) \o <<<<h, "handler">>>> \o After(Reverse(list))

(* the middleware passed to Use, in call order *)
RECURSIVE UsedUpTo(_)
UsedUpTo(i) ==
    IF i = 0 THEN <<>>
    ELSE UsedUpTo(i - 1) \o (IF calls[i].op = "Use" THEN calls[i].mw ELSE <<>>)

GlobalMw == UsedUpTo(Len(calls))

(* the middleware given to group g itself, at its creation or by Group.Use, *)
(* in the calls before call upto                                            *)
RECURSIVE OwnMw(_, _)
OwnMw(g, upto) ==
    IF upto <= 1 THEN <<>>
    ELSE OwnMw(g, upto - 1) \o
         (IF \/ calls[upto - 1].made = g
             \/ calls[upto - 1].op = "GroupUse" /\ calls[upto - 1].recv = g
          THEN calls[upto - 1].mw ELSE <<>>)

(* the middleware in force in group g at call upto: what the parent held   *)
(* when g was created, then g's own                                        *)
RECURSIVE GroupMw(_, _)
GroupMw(g, upto) ==
    LET c == CHOOSE k \in 1..Len(calls) : calls[k].made = g IN
    (IF calls[c].op = "GroupGroup" THEN GroupMw(calls[c].recv, c) ELSE <<>>)
        \o OwnMw(g, upto)

(* the registration call that installed the handler of the last request *)
RouteCall == CHOOSE i \in Registrations : calls[i].handler = last.handler

(* C8: with global middleware [A, B] and route middleware [C, D] that all  *)
(* call next, a request runs A, B, C, D before the handler and D, C, B, A  *)
(* after it: global wraps route, first registered is outermost.            *)
C8_MiddlewareOrder ==
    Routed /\ calls[RouteCall].recv = 0
           /\ last.env.deny \notin Range(GlobalMw \o calls[RouteCall].mw)
    => last.ctx.trace = Onion(GlobalMw \o calls[RouteCall].mw, last.handler)

C8_Witness ==
    /\ Routed
    /\ calls[RouteCall].recv = 0
    /\ Len(GlobalMw) = 2
    /\ Len(calls[RouteCall].mw) = 2
    /\ last.env.deny = 0
    /\ Len(last.ctx.trace) = 9

(* C9: a route registered through a group runs the global middleware, then *)
(* the group's (the parent group's before the nested group's, each in      *)
(* registration order), then the route's own, then the handler, and the    *)
(* after parts in the reverse order.                                       *)
C9_ThreeLevelOrder ==
    Routed /\ calls[RouteCall].recv # 0 =>
        LET chain == GlobalMw \o GroupMw(calls[RouteCall].recv, RouteCall)
                         \o calls[RouteCall].mw
        IN  last.env.deny \notin Range(chain)
            => last.ctx.trace = Onion(chain, last.handler)

C9_Witness ==
    /\ Routed
    /\ calls[RouteCall].recv = 2
    /\ \E k \in 1..Len(calls) :
           calls[k].op = "GroupGroup" /\ calls[k].made = 2 /\ Len(calls[k].mw) = 1
    /\ Len(GlobalMw) = 1
    /\ Len(groups[1].middleware) = 1
    /\ last.env.deny = 0
    /\ Len(calls[RouteCall].mw) = 1
    /\ Len(last.ctx.trace) = 9

(* C10: when the chain returns a failure after a status or body bytes were *)
(* written, the status and the body after dispatch, error hook included,   *)
(* are what had been written when the failure was returned.                *)
C10_PostWriteImmutable ==
    Served /\ last.err # NoError /\ last.returned.wroteHeader =>
        /\ last.ctx.Code = last.returned.Code
        /\ last.ctx.Body = last.returned.Body
        /\ last.ctx.status = last.returned.status

C10_Witness ==
    /\ Routed
    /\ last.env.hbeh = "writefail"
    /\ last.err = "error after headers sent"
    /\ last.ctx.Code = StatusOK
    /\ last.ctx.Body = <<<<"Success">>>>

----------------------------------------------------------------------------
(* Specification of the outcomes of a request: two methods, global and     *)
(* route middleware, handlers and hooks that may fail                      *)

DispatchPatterns == { <<"/", "a">>, <<"/", "a", "/", ":", "x">> }

DispatchPaths == { <<"/", "a">>, <<"/", "a", "/", "b">>, <<"/", "c">> }

(* as Envs, or the application has installed hooks that fail *)
DispatchEnvs == Envs \cup {[hbeh |-> "ok", deny |-> 0, hook |-> "fail"]}

NextDispatch ==
    \/ /\ Len(calls) < MaxCalls
       /\ NumRoutes < MaxMwRoutes
       /\ \E method \in Methods, path \in DispatchPatterns, n \in GroupArgs :
              Handle(method, path, <<>>, n)
    \/ /\ Len(calls) < MaxCalls
       /\ Use(1)
    \/ Serve
    \/ \E method \in Methods, path \in DispatchPaths, env \in DispatchEnvs :
           ServeHTTP(method, path, env)

SpecDispatch == Init /\ [][NextDispatch]_vars

----------------------------------------------------------------------------
(* Properties of the outcomes of a request *)

Targets == { <<"chain">>, <<"NotFound">>, <<"MethodNotAllowed">> }

(* the positions of the log of calls at which ServeHTTP called one of S *)
CallsOf(c, S) == {k \in 1..Len(c.hooks) : c.hooks[k] \in S}

ErrorCalls(c) == {k \in 1..Len(c.hooks) : c.hooks[k][1] = "ErrorHandler"}

Entered(c, id) ==
    {k \in 1..Len(c.trace) : c.trace[k] \in {<<id, "before">>, <<id, "handler">>}}

(* C11: a request makes exactly one call, and only one, to the composed    *)
(* chain of the matched route, to the Not-Found hook or to the             *)
(* Method-Not-Allowed hook; that call is the first thing ServeHTTP does    *)
(* with the context, it is the one the lookup selects, and inside a chain  *)
(* no closure is entered twice.                                            *)
C11_SingleOutcome ==
    Served =>
        /\ Cardinality(CallsOf(last.ctx, Targets)) = 1
        /\ last.ctx.hooks[1] =
               (IF Find(tree, last.method, last.path).handler # NilHandler
                THEN <<"chain">>
                ELSE IF \E m \in Methods :
                            Find(tree, m, last.path).handler # NilHandler
                     THEN <<"MethodNotAllowed">>
                     ELSE <<"NotFound">>)
        /\ \A id \in 1..nextId : Cardinality(Entered(last.ctx, id)) <= 1
        /\ last.ctx.hooks[1] = <<"chain">> <=> last.ctx.trace # <<>>
        /\ last.ctx.hooks[1] = <<"chain">> =>
               last.ctx.trace[1][1] = Head(middleware \o last.middleware
                                              \o <<last.handler>>)

C11_Witness ==
    /\ last.outcome = "MethodNotAllowed"
    /\ last.env.hook = "fail"
    /\ last.ctx.hooks = << <<"MethodNotAllowed">>, <<"ErrorHandler", "hook failed">> >>

(* C12: when the chain or a hook returns a failure, the error hook is      *)
(* called once, last, with that failure and with the context as the chain  *)
(* or hook left it, and nothing is called again; when no failure is        *)
(* returned the error hook is not called and the context stays as it was.  *)
C12_ErrorFunneling ==
    Served =>
        IF last.err # NoError
        THEN /\ ErrorCalls(last.ctx) = {Len(last.ctx.hooks)}
             /\ last.ctx.hooks =
                    Append(last.returned.hooks, <<"ErrorHandler", last.err>>)
             /\ Cardinality(CallsOf(last.ctx, Targets)) = 1
             /\ last.ctx.trace = last.returned.trace
             /\ last.ctx.Params = last.returned.Params
        ELSE /\ ErrorCalls(last.ctx) = {}
             /\ last.ctx = last.returned

C12_Witness ==
    /\ last.outcome = "NotFound"
    /\ last.err = "hook failed"
    /\ last.ctx.hooks = << <<"NotFound">>, <<"ErrorHandler", "hook failed">> >>
    /\ last.ctx.Code = StatusInternalServerError

(* C13: when the handler of the matched route fails and nothing has been   *)
(* written, the response has status 500 and its body carries the message   *)
(* of the failure.                                                         *)
C13_FailureBeforeWrite ==
    Routed /\ last.err # NoError /\ ~last.returned.wroteHeader =>
        /\ last.ctx.Code = StatusInternalServerError
        /\ last.ctx.Body = << <<"error", last.err>> >>

C13_Witness ==
    /\ Routed
    /\ last.env.hbeh = "fail"
    /\ <<last.handler, "handler">> \in Range(last.ctx.trace)
    /\ last.ctx.Code = StatusInternalServerError
    /\ last.ctx.Body = << <<"error", "early error">> >>

(* the result of a lookup, as the request that ran it recorded it *)
Looked(r) == [handler |-> r.handler, params |-> r.params, middleware |-> r.middleware]

(* Tree.Find when no route matches returns nil, nil, nil *)
LookupOf(t, method, path) ==
    LET f == Find(t, method, path) IN
    IF f.handler = NilHandler THEN Looked(NoRequest) ELSE f

(* C14: a request changes nothing of the tree, the registry or the global  *)
(* middleware; a lookup made after the request returns the handler, the    *)
(* bindings and the middleware list the request got, and so does the next  *)
(* request for the same method and path.                                   *)
C14_LookupReadOnly ==
    [][ started =>
          /\ tree' = tree
          /\ names' = names
          /\ middleware' = middleware
          /\ Looked(last') = LookupOf(tree', last'.method, last'.path)
          /\ ( Served /\ last'.method = last.method /\ last'.path = last.path
                 => Looked(last') = Looked(last) ) ]_vars

C14_Witness ==
    /\ Routed
    /\ last.path = <<"/">>
    /\ last.method = "GET"
    /\ Looked(last) = LookupOf(tree, "GET", <<"/">>)
    /\ Len(tree.nodes) = 2

----------------------------------------------------------------------------
(* Specification of concurrent requests: registration, then the steps of   *)
(* the requests interleave                                                 *)

ConcPatterns == { <<"/", "a">>, <<"/", "a", "/", ":", "x">> }

ConcPaths == { <<"/", "a", "/", "b">>, <<"/", "a", "/", "c">> }

ConcEnvs == [hbeh : HandlerBehs, deny : {0}, hook : {"default"}]

NextConc ==
    \/ /\ NumRoutes < MaxMwRoutes
       /\ \E path \in ConcPatterns : Handle("GET", path, <<>>, 0)
    \/ Serve
    \/ \E i \in 1..MaxRequests, path \in ConcPaths, env \in ConcEnvs :
           Begin(i, "GET", path, env)
    \/ \E i \in 1..MaxRequests : Route(i)
    \/ \E i \in 1..MaxRequests : RunChain(i)
    \/ \E i \in 1..MaxRequests : HandleError(i)

SpecConc == Init /\ [][NextConc]_vars

(* the handler events in the trace of a context *)
HandlerRuns(c) == {k \in 1..Len(c.trace) : c.trace[k][2] = "handler"}

(* what the request gets when it is served alone *)
Alone(r) ==
    { dispatch(tree, middleware, r.method, r.path, order, r.env) :
          order \in Perms(MapKeys(tree.roots)) }

(* C15: requests served concurrently do not share a context; a request     *)
(* that has run its chain has run its matched handler once and passed it   *)
(* the bindings of its own path; a finished request has the response, the  *)
(* bindings and the header flag it gets when it is served alone, and a     *)
(* context holds only what its own request has done so far.                *)
C15_RequestsIsolated ==
    /\ \A i, j \in 1..MaxRequests :
           i # j /\ reqs[i].pc # "idle" /\ reqs[j].pc # "idle"
               => reqs[i].c # reqs[j].c
    /\ \A i \in 1..MaxRequests :
           LET r == reqs[i] IN
           /\ r.pc = "created" => ctxs[r.c] = newContext
           /\ r.pc = "found" =>
                  ctxs[r.c] = [newContext EXCEPT
                                  !.Params = Find(tree, r.method, r.path).params]
           /\ r.pc \in {"failed", "done"} /\ r.handler # NilHandler =>
                  /\ r.seen = Find(tree, r.method, r.path).params
                  /\ r.seen = ExpectedParams(<<"/", "a", "/", ":", "x">>, r.path)
                  /\ Cardinality(HandlerRuns(ctxs[r.c])) = 1
                  /\ <<r.handler, "handler">> \in Range(ctxs[r.c].trace)
           /\ r.pc = "failed" => \E d \in Alone(r) : ctxs[r.c] = d.returned
           /\ r.pc = "done" => \E d \in Alone(r) : ctxs[r.c] = d.ctx

C15_Witness ==
    /\ reqs[1].pc = "done" /\ reqs[2].pc = "done"
    /\ reqs[1].c = 2 /\ reqs[2].c = 1
    /\ reqs[1].seen = {<< <<"x">>, <<"b">> >>}
    /\ reqs[2].seen = {<< <<"x">>, <<"c">> >>}
    /\ ctxs[2].Code = StatusOK
    /\ ctxs[1].Code = StatusInternalServerError
    /\ ~ctxs[2].trace = <<>> /\ ~ctxs[1].trace = <<>>

----------------------------------------------------------------------------
(* Properties of global and group middleware *)

(* the elements of seq that lie in S, in their order *)
RECURSIVE Keep(_, _)
Keep(seq, S) ==
    IF seq = <<>> THEN <<>>
    ELSE (IF Head(seq) \in S THEN <<Head(seq)>> ELSE <<>>) \o Keep(Tail(seq), S)

(* C16: the global list is what the Use calls passed, in call order, and   *)
(* never loses or reorders an entry; a request to a matched route, direct  *)
(* or of a group, registered before or after the Use calls, enters every   *)
(* global middleware once, in that order, unless one of them rejects it.   *)
C16_GlobalOnEveryRoute ==
    /\ middleware = GlobalMw
    /\ Routed /\ last.env.deny \notin Range(GlobalMw) =>
           /\ Keep(last.ctx.trace, Range(Before(GlobalMw))) = Before(GlobalMw)
           /\ SubSeq(last.ctx.trace, 1, Len(GlobalMw)) = Before(GlobalMw)

C16_Witness ==
    /\ Routed
    /\ last.env.deny = 0
    /\ Len(GlobalMw) = 2
    /\ \E i, j, k \in 1..Len(calls) :
           /\ i < j /\ j < k
           /\ calls[i].op = "Use" /\ calls[k].op = "Use"
           /\ j = RouteCall
    /\ SubSeq(last.ctx.trace, 1, 2) = Before(GlobalMw)

(* group g and the groups it is nested in *)
RECURSIVE Lineage(_)
Lineage(g) ==
    LET c == CHOOSE k \in 1..Len(calls) : calls[k].made = g IN
    {g} \cup (IF calls[c].op = "GroupGroup" THEN Lineage(calls[c].recv) ELSE {})

(* every middleware given to group g, at its creation or by Group.Use *)
AddedTo(g) == Range(OwnMw(g, Len(calls) + 1))

(* C17: a request to a route registered through a group enters every       *)
(* middleware that was given to that group or to a group it is nested in,  *)
(* at creation or by Group.Use, whenever it was given.                     *)
C17_GroupMwOnAllRoutes ==
    Routed /\ calls[RouteCall].recv # 0 /\ last.env.deny = 0 =>
        \A g \in Lineage(calls[RouteCall].recv) :
            \A m \in AddedTo(g) : <<m, "before">> \in Range(last.ctx.trace)

----------------------------------------------------------------------------
(* Specification of the named routes: the seven method helpers of the      *)
(* router and of a group, with WithName or without                         *)

AllMethods == {"GET", "POST", "PUT", "PATCH", "DELETE", "HEAD", "OPTIONS"}

(* WithName("n"), and WithName("a_index"), the name GenerateName gives GET /a *)
ExplicitNames == { <<"n">>, <<"a", "_", "index">> }

NamedInputs ==
    [method : AllMethods, name : ExplicitNames]
        \cup {[method |-> "GET", name |-> <<>>]}

NextNames ==
    \/ /\ NumRoutes < MaxRoutes
       /\ \E in \in NamedInputs : Handle(in.method, RoutePath, in.name, 0)
    \/ /\ groups = <<>>
       /\ Group(Prefix, 0)
    \/ /\ NumRoutes < MaxRoutes
       /\ \E in \in NamedInputs :
              GroupHandleNamed(1, in.method, RoutePath, in.name, 0)
    \/ Serve

SpecNames == Init /\ [][NextNames]_vars

----------------------------------------------------------------------------
(* Properties of the named routes *)

(* Router.NamedRoutes: the (name, pattern, method) triples of the registry *)
NamedRoutes == {e[2] : e \in names}

Accepted == {i \in Registrations : calls[i].err = NoErr}

(* C18: the registry holds a triple for every (method, pattern) pair that  *)
(* was registered successfully, with or without an explicit name.          *)
C18_EnumerationComplete ==
    \A i \in Accepted :
        \E route \in NamedRoutes :
            route.Pattern = calls[i].path /\ route.Method = calls[i].method

(* the name a registration call ends up with *)
NameOf(call) ==
    IF call.name # <<>> THEN call.name ELSE GenerateName(call.path, call.method)

(* group prefix followed by the route path, as the caller wrote them *)
FullPattern(call) ==
    IF call.recv = 0 THEN call.given ELSE groups[call.recv].prefix \o call.given

(* C19: a route registered with an explicit name that no other route has,  *)
(* given or generated, is in NamedRoutes under that name with the full     *)
(* pattern and the method of its registration.                             *)
C19_ExplicitNamesKept ==
    \A i \in Accepted :
        ( /\ calls[i].name # <<>>
          /\ \A j \in Accepted \ {i} : NameOf(calls[j]) # calls[i].name )
        => /\ MapHas(names, calls[i].name)
           /\ MapGet(names, calls[i].name) =
                  [Name |-> calls[i].name, Pattern |-> FullPattern(calls[i]),
                   Method |-> calls[i].method]

C19_Witness ==
    /\ \E i \in Accepted :
           /\ calls[i].recv = 1
           /\ calls[i].name = <<"a", "_", "index">>
           /\ calls[i].method = "PATCH"
           /\ MapGet(names, calls[i].name).Pattern = <<"/", "g", "/", "a">>
           /\ MapGet(names, calls[i].name).Method = "PATCH"
    /\ \E j \in Accepted :
           /\ calls[j].recv = 0
           /\ calls[j].name = <<"n">>
           /\ calls[j].method = "DELETE"
           /\ MapGet(names, <<"n">>).Pattern = <<"/", "a">>

----------------------------------------------------------------------------
(* Specification of the resources: Resources calls with full and partial   *)
(* controllers, with and without Only / Except, then requests              *)

Base == <<"/", "p">>

AllActions == {AllResourceActions[k] : k \in 1..Len(AllResourceActions)}

Controllers == {AllActions, AllActions \ {"edit"}}
Onlys == {{}, {"index", "show"}}
Excepts == {{}, {"new"}, {"show"}}

(* a controller with its options: every option with the full controller,   *)
(* no option or Except with the partial one                                *)
ResInputs ==
    { in \in [impl : Controllers, only : Onlys, except : Excepts] :
          in.impl = AllActions \/ (in.only = {} /\ in.except # {"show"}) }

ResMethods == {"GET", "POST", "PATCH", "PUT", "DELETE"}

ResPaths ==
    { Base,
      Base \o <<"/", "n", "e", "w">>,
      Base \o <<"/", "7">>,
      Base \o <<"/", "7", "/", "e", "d", "i", "t">> }

NumResources == Cardinality({i \in 1..Len(calls) : calls[i].op = "Resources"})

NextRes ==
    \/ /\ NumResources < MaxResources
       /\ \E in \in ResInputs : Resources(Base, in.impl, in.only, in.except, 0)
    \/ Serve
    \/ \E method \in ResMethods, path \in ResPaths : ServeHTTP(method, path, NoEnv)

SpecRes == Init /\ [][NextRes]_vars

(* Resources calls on the router and on a group *)
GroupResPaths ==
    { Base \o <<"/", "7">>,
      Prefix \o Base,
      Prefix \o Base \o <<"/", "7">>,
      Prefix \o Base \o <<"/", "7", "/", "e", "d", "i", "t">> }

NextGroupRes ==
    \/ /\ NumResources < MaxResources
       /\ \E in \in ResInputs : Resources(Base, in.impl, in.only, in.except, 0)
    \/ /\ groups = <<>>
       /\ \E n \in GroupArgs : Group(Prefix, n)
    \/ /\ NumResources < MaxResources
       /\ \E in \in ResInputs, n \in GroupArgs :
              GroupResources(1, Base, in.impl, in.only, in.except, n)
    \/ Serve
    \/ \E path \in GroupResPaths : ServeHTTP("GET", path, NoEnv)

SpecGroupRes == Init /\ [][NextGroupRes]_vars

----------------------------------------------------------------------------
(* Properties of the resources *)

(* the router holds the routes of one Resources call, made with a          *)
(* controller that implements the seven actions and without Only / Except  *)
FullResource ==
    /\ Len(calls) = 1
    /\ calls[1].op = "Resources"
    /\ calls[1].recv = 0
    /\ calls[1].arg = [impl |-> AllActions, only |-> {}, except |-> {}]

(* the controller method of the first Resources call for an action *)
ActionHandler(action) ==
    calls[1].handler
        + (CHOOSE k \in 1..Len(AllResourceActions) : AllResourceActions[k] = action)

AnsweredBy(action, params) ==
    /\ last.outcome = "route"
    /\ last.handler = ActionHandler(action)
    /\ last.params = params
    /\ last.ctx.trace = << <<ActionHandler(action), "handler">> >>

IdIs(seg) == { << <<"i", "d">>, seg >> }

(* C20: after Resources(base, c) with a controller that implements the     *)
(* seven actions, GET base runs Index, GET base/new runs New, POST base    *)
(* runs Create, GET base/7 runs Show with id=7, GET base/7/edit runs Edit, *)
(* PATCH and PUT base/7 run Update and DELETE base/7 runs Delete.          *)
C20_ResourcesRouting ==
    FullResource /\ Served =>
        LET rest == SubSeq(last.path, Len(Base) + 1, Len(last.path))
            m == last.method
        IN  /\ m = "GET" /\ rest = <<>> => AnsweredBy("index", EmptyMap)
            /\ m = "GET" /\ rest = <<"/", "n", "e", "w">> =>
                   AnsweredBy("new", EmptyMap)
            /\ m = "POST" /\ rest = <<>> => AnsweredBy("create", EmptyMap)
            /\ m = "GET" /\ rest = <<"/", "7">> =>
                   AnsweredBy("show", IdIs(<<"7">>))
            /\ m = "GET" /\ rest = <<"/", "7", "/", "e", "d", "i", "t">> =>
                   AnsweredBy("edit", IdIs(<<"7">>))
            /\ m \in {"PATCH", "PUT"} /\ rest = <<"/", "7">> =>
                   AnsweredBy("update", IdIs(<<"7">>))
            /\ m = "DELETE" /\ rest = <<"/", "7">> =>
                   AnsweredBy("delete", IdIs(<<"7">>))

C20_Witness ==
    /\ FullResource
    /\ last.method = "GET"
    /\ last.path = Base \o <<"/", "n", "e", "w">>
    /\ AnsweredBy("new", EmptyMap)
    /\ ActionHandler("new") # ActionHandler("show")

(* the router holds the routes of one Resources call on the router, made   *)
(* with a controller that implements the seven actions                     *)
OneResource ==
    /\ Len(calls) = 1
    /\ calls[1].op = "Resources"
    /\ calls[1].recv = 0
    /\ calls[1].arg.impl = AllActions

(* the actions Only / Except leave in: Only decides when it is given *)
Included ==
    IF calls[1].arg.only # {} THEN calls[1].arg.only
    ELSE AllActions \ calls[1].arg.except

(* the actions whose route has the method and matches the path base ++ rest, *)
(* a literal route before the :id route                                     *)
Candidates(m, rest) ==
    CASE rest = <<>> ->
            IF m = "GET" THEN <<"index">>
            ELSE IF m = "POST" THEN <<"create">> ELSE <<>>
      [] rest = <<"/", "7", "/", "e", "d", "i", "t">> ->
            IF m = "GET" THEN <<"edit">> ELSE <<>>
      [] OTHER ->
            IF m = "GET"
            THEN (IF rest = <<"/", "n", "e", "w">> THEN <<"new">> ELSE <<>>)
                     \o <<"show">>
            ELSE IF m \in {"PATCH", "PUT"} THEN <<"update">>
            ELSE IF m = "DELETE" THEN <<"delete">> ELSE <<>>

(* the bindings of a request answered by action: the :id routes bind id to *)
(* the segment after the base                                              *)
BindingsOf(action, rest) ==
    IF action \in {"index", "new", "create"} THEN EmptyMap
    ELSE IF rest = <<"/", "n", "e", "w">> THEN IdIs(<<"n", "e", "w">>)
    ELSE IdIs(<<"7">>)

HandlersInTree ==
    UNION {{e[2] : e \in tree.nodes[n].Handlers} : n \in NodeIds}

(* C22: after Resources with Only(S) or Except(S) the tree holds handlers  *)
(* for exactly the actions left in and the registry their names; a request *)
(* is answered by the first action left in whose route has its method and  *)
(* matches its path (so GET base/new by Show with id=new when New is out   *)
(* and Show is in), else by Method Not Allowed when a route of another     *)
(* method matches the path, else by Not Found.                             *)
C22_OnlyExceptFiltering ==
    OneResource =>
        /\ HandlersInTree = {ActionHandler(a) : a \in Included}
        /\ MapKeys(names) = {SubSeq(Base, 2, 2) \o <<"_">> \o <<a>> : a \in Included}
        /\ Served =>
               LET rest == SubSeq(last.path, Len(Base) + 1, Len(last.path))
                   own == Keep(Candidates(last.method, rest), Included)
                   other == \E m \in ResMethods \ {last.method} :
                                Keep(Candidates(m, rest), Included) # <<>>
               IN  IF own # <<>>
                   THEN AnsweredBy(own[1], BindingsOf(own[1], rest))
                   ELSE IF other THEN last.outcome = "MethodNotAllowed"
                   ELSE last.outcome = "NotFound"

C22_Witness ==
    /\ OneResource
    /\ calls[1].arg.only = {"index", "show"}
    /\ calls[1].arg.except = {"show"}
    /\ last.method = "GET"
    /\ last.path = Base \o <<"/", "n", "e", "w">>
    /\ AnsweredBy("show", IdIs(<<"n", "e", "w">>))

(* C21: a Resources call without Only and without Except, on the router or *)
(* on a group, with a controller that lacks one of the seven actions,      *)
(* panics and names the missing action.                                    *)
C21_MissingActionFatal ==
    \A i \in 1..Len(calls) :
        ( /\ calls[i].op = "Resources"
          /\ calls[i].arg.only = {} /\ calls[i].arg.except = {}
          /\ calls[i].arg.impl # AllActions )
        => /\ calls[i].err.msg = "missing method"
           /\ calls[i].err.param \in {<<a>> : a \in AllActions \ calls[i].arg.impl}

(* C28: a Resources call that panics because the controller lacks a        *)
(* required action leaves no route of that resource behind: the handlers   *)
(* in the tree and the named routes are what they were before the call.    *)
C28_ResourcesAllOrNothing ==
    [][ ( /\ Len(calls') = Len(calls) + 1
          /\ calls'[Len(calls')].op = "Resources"
          /\ calls'[Len(calls')].err.msg = "missing method" )
        => /\ names' = names
           /\ HandlersInTree' = HandlersInTree ]_vars

-----------------------------------------------------------------------------
(* The response writer of one request: a handler holds the Context that    *)
(* newContext made for it and calls WriteHeader / Status, Write and JSON   *)
(* on it in any order.                                                     *)
MaxBody == 3

Statuses == {StatusOK, 201, StatusNotFound, StatusInternalServerError}
Chunks == {"a", "b", "c"}

(* Context.GetStatus *)
GetStatus(c) == c.status

CtxNew ==
    /\ ctxs = <<>>
    /\ ctxs' = alloc(ctxs).ctxs
    /\ UNCHANGED <<tree, names, middleware, groups, calls, nextId, started, last, reqs>>

(* c.Writer.WriteHeader(code), also reached through Context.Status *)
CtxWriteHeader(code) ==
    /\ ctxs # <<>>
    /\ ctxs' = [ctxs EXCEPT ![1] = WriteHeader(@, code)]
    /\ UNCHANGED <<tree, names, middleware, groups, calls, nextId, started, last, reqs>>

(* c.Writer.Write(b) *)
CtxWrite(b) ==
    /\ ctxs # <<>>
    /\ Len(ctxs[1].Body) < MaxBody
    /\ ctxs' = [ctxs EXCEPT ![1] = Write(@, b)]
    /\ UNCHANGED <<tree, names, middleware, groups, calls, nextId, started, last, reqs>>

(* c.JSON(status, data) *)
CtxJSON(status, data) ==
    /\ ctxs # <<>>
    /\ Len(ctxs[1].Body) < MaxBody
    /\ ctxs' = [ctxs EXCEPT ![1] = JSON(@, status, data)]
    /\ UNCHANGED <<tree, names, middleware, groups, calls, nextId, started, last, reqs>>

NextWriter ==
    \/ CtxNew
    \/ \E code \in Statuses : CtxWriteHeader(code)
    \/ \E b \in Chunks : CtxWrite(b)
    \/ \E status \in Statuses, data \in Chunks : CtxJSON(status, data)

SpecWriter == Init /\ [][NextWriter]_vars

(* C23: the context of a request starts with IsHeaderWritten false and     *)
(* GetStatus 200; the first WriteHeader(code) or Write sets the flag in    *)
(* the same step and fixes the recorded status (code, or 200 for a Write   *)
(* without a status); the flag never returns to false, and a later         *)
(* WriteHeader changes neither the recorded status nor the response.       *)
C23_ResponseStartedFlag ==
    [][ /\ (ctxs = <<>> /\ ctxs' # <<>>) =>
              /\ ~IsHeaderWritten(ctxs'[1])
              /\ GetStatus(ctxs'[1]) = StatusOK
              /\ ctxs'[1].Code = 0 /\ ctxs'[1].Body = <<>>
        /\ (ctxs # <<>>) =>
              LET old == ctxs[1]
                  new == ctxs'[1]
              IN  /\ IsHeaderWritten(new)
                  /\ IsHeaderWritten(old) =>
                         /\ GetStatus(new) = GetStatus(old)
                         /\ new.Code = old.Code
                  /\ \A code \in Statuses :
                         CtxWriteHeader(code) =>
                             IF IsHeaderWritten(old) THEN new = old
                             ELSE /\ GetStatus(new) = code /\ new.Code = code
                                  /\ new.Body = old.Body
                  /\ \A b \in Chunks :
                         (CtxWrite(b) /\ ~IsHeaderWritten(old)) =>
                             /\ GetStatus(new) = StatusOK /\ new.Code = StatusOK
                             /\ new.Body = <<b>> ]_vars

C23_Witness ==
    /\ ctxs # <<>>
    /\ IsHeaderWritten(ctxs[1])
    /\ GetStatus(ctxs[1]) = 201
    /\ ctxs[1].Code = 201
    /\ ctxs[1].Body = <<"a", "b">>

-----------------------------------------------------------------------------
(* The reference matcher: a pattern against a whole path, segment by       *)
(* segment.  "/" has no segment.                                           *)
RefSegments(path) == IF path = <<"/">> THEN <<>> ELSE Segments(path)

IsWildcard(seg) == Len(seg) >= 1 /\ Head(seg) = "*"
IsParam(seg) == Len(seg) >= 1 /\ Head(seg) = ":"

WildcardsFinal(pattern) ==
    LET psegs == RefSegments(pattern) IN
    \A k \in 1..Len(psegs) : IsWildcard(psegs[k]) => k = Len(psegs)

RECURSIVE MatchFrom(_, _, _)
MatchFrom(psegs, segs, k) ==
    IF k > Len(psegs) THEN k > Len(segs)
    ELSE IF k > Len(segs) THEN FALSE
    ELSE IF IsWildcard(psegs[k]) THEN TRUE
    ELSE IF IsParam(psegs[k]) THEN MatchFrom(psegs, segs, k + 1)
    ELSE psegs[k] = segs[k] /\ MatchFrom(psegs, segs, k + 1)

Matches(pattern, path) == MatchFrom(RefSegments(pattern), RefSegments(path), 1)

(* some accepted registration of the method has a pattern that matches path *)
SomeRouteMatches(method, path) ==
    \E i \in Accepted : calls[i].method = method /\ Matches(calls[i].path, path)

(* C24: when every registered pattern has its wildcard, if any, as the     *)
(* last segment, Find returns a handler for (method, path) if and only if  *)
(* a pattern registered for the method matches the whole path segment by   *)
(* segment: a literal an equal segment, a parameter one segment, a         *)
(* wildcard one or more remaining segments.                                *)
C24_LookupAgreesWithMatcher ==
    (\A i \in Accepted : WildcardsFinal(calls[i].path)) =>
        \A method \in Methods, path \in Paths :
            Find(tree, method, path).handler # NilHandler
                <=> SomeRouteMatches(method, path)

(* a route through a parameter and a wildcard route are registered: the    *)
(* strict prefix /a, the longer path /a/c/b/... and the bare prefix in     *)
(* front of the wildcard find nothing, /a/c/b and /a/c/d are found         *)
C24_Witness ==
    /\ \E i, j \in Accepted :
          /\ calls[i].method = "GET" /\ calls[j].method = "GET"
          /\ calls[i].path = <<"/", "a", "/", ":", "x", "/", "b">>
          /\ calls[j].path = <<"/", "a", "/", "*", "x">>
    /\ Routed
    /\ last.method = "GET"
    /\ last.path = <<"/", "a", "/", "c", "/", "d">>
    /\ Find(tree, "GET", <<"/", "a">>).handler = NilHandler
    /\ Find(tree, "GET", <<"/", "a", "/", "c", "/", "b">>).handler # NilHandler

-----------------------------------------------------------------------------
WildcardNodes == {w \in NodeIds : tree.nodes[w].NType = Wildcard}

(* n lies strictly below a *)
StrictlyBelow(n, a) == \E c \in ChildrenOf(a) : Below(n, c)

(* C25: the node that answers a request never lies below a wildcard node;  *)
(* a wildcard child of a node the lookup reaches with a segment left       *)
(* answers when it holds a handler of the method, unless an earlier        *)
(* sibling has answered; the handler of a pattern that has segments after  *)
(* a wildcard segment is returned for no method and path.                  *)
C25_WildcardTerminal ==
    /\ Routed => \A w \in WildcardNodes : ~StrictlyBelow(HitNode, w)
    /\ (Served /\ last.path # <<"/">>) =>
           LET segs == Segments(last.path) IN
           \A n \in NodeIds, i \in 1..Len(segs), w \in WildcardNodes :
               ( /\ OnTrail(n, segs, i, last.method)
                 /\ w \in ChildrenOf(n)
                 /\ MapHas(tree.nodes[w].Handlers, last.method) )
               => Routed
    /\ \A i \in Accepted :
           ~WildcardsFinal(calls[i].path) =>
               \A method \in Methods, path \in Paths :
                   Find(tree, method, path).handler # calls[i].handler

C25_Witness ==
    /\ \E i, j \in Accepted :
          /\ calls[i].method = "GET" /\ calls[j].method = "GET"
          /\ calls[i].path = <<"/", "a", "/", "*", "y", "/", "b">>
          /\ calls[j].path = <<"/", "a", "/", "*", "x">>
          /\ last.handler = calls[j].handler
    /\ Routed
    /\ last.method = "GET"
    /\ last.path = <<"/", "a", "/", "c", "/", "b">>

-----------------------------------------------------------------------------
(* no node of t has two children with the same segment text and kind *)
SiblingsUnique(t) ==
    \A n \in 1..Len(t.nodes) :
        \A k1, k2 \in 1..Len(t.nodes[n].Children) :
            LET c1 == t.nodes[t.nodes[n].Children[k1]]
                c2 == t.nodes[t.nodes[n].Children[k2]]
            IN  (c1.Path = c2.Path /\ c1.NType = c2.NType) => k1 = k2

(* the children of every node of t stand in the order of their creation:   *)
(* a node created later has the larger place in the heap                   *)
SiblingsInCreationOrder(t) ==
    \A n \in 1..Len(t.nodes) :
        \A k1, k2 \in 1..Len(t.nodes[n].Children) :
            k1 < k2 => t.nodes[n].Children[k1] < t.nodes[n].Children[k2]

(* every node of t is a node of u with the same segment and kind, and its  *)
(* children in t are the first children it has in u, in the same order     *)
OnlyAppended(t, u) ==
    /\ Len(t.nodes) <= Len(u.nodes)
    /\ \A n \in 1..Len(t.nodes) :
          /\ u.nodes[n].Path = t.nodes[n].Path
          /\ u.nodes[n].NType = t.nodes[n].NType
          /\ Len(t.nodes[n].Children) <= Len(u.nodes[n].Children)
          /\ SubSeq(u.nodes[n].Children, 1, Len(t.nodes[n].Children))
                 = t.nodes[n].Children

(* C26: after every step no node has two children with the same segment    *)
(* text and kind, the children of every node are in the order of their     *)
(* creation, and the step has kept every node and only appended children.  *)
C26_SiblingsUniqueOrdered ==
    [][ /\ SiblingsUnique(tree')
        /\ SiblingsInCreationOrder(tree')
        /\ OnlyAppended(tree, tree') ]_vars

(* two routes of one method share the prefix /a: one node a, two children *)
C26_Witness ==
    /\ \E i, j \in Accepted :
          /\ calls[i].method = calls[j].method
          /\ calls[i].path = <<"/", "a", "/", "b">>
          /\ calls[j].path = <<"/", "a", "/", ":", "x">>
    /\ Len(tree.nodes) = 4
    /\ \E n \in NodeIds : Len(tree.nodes[n].Children) = 2

-----------------------------------------------------------------------------
(* the step is a route registration that the tree refused *)
RejectedRegistration ==
    /\ Len(calls') = Len(calls) + 1
    /\ calls'[Len(calls')].op = "handle"
    /\ calls'[Len(calls')].err # NoErr

(* u holds the nodes of t unchanged and at most one more node, a root      *)
(* without handler, pattern, middleware or children                        *)
NothingInserted(t, u) ==
    /\ Len(u.nodes) \in {Len(t.nodes), Len(t.nodes) + 1}
    /\ SubSeq(u.nodes, 1, Len(t.nodes)) = t.nodes
    /\ \A n \in (Len(t.nodes) + 1)..Len(u.nodes) :
          /\ u.nodes[n] = Node(<<"/">>, Static, <<>>)
          /\ \E method \in Methods : <<method, n>> \in u.roots

(* C27: a registration that fails (pattern not starting with '/', or a     *)
(* parameter name used twice) leaves every Find result, every Not Found /  *)
(* Method Not Allowed decision and the named routes as they were, and no   *)
(* node of the rejected pattern, handler or name in the router.            *)
C27_RejectedChangesNothing ==
    [][ RejectedRegistration =>
          /\ \A method \in Methods, path \in Paths :
                Find(tree', method, path) = Find(tree, method, path)
          /\ \A path \in Paths :
                \A o1 \in Perms(MapKeys(tree.roots)),
                   o2 \in Perms(MapKeys(tree'.roots)) :
                    HasMethod(tree', o2, path) = HasMethod(tree, o1, path)
          /\ names' = names
          /\ NothingInserted(tree, tree')
          /\ calls'[Len(calls')].handler
                 \notin UNION {{e[2] : e \in tree'.nodes[n].Handlers} :
                                  n \in 1..Len(tree'.nodes)} ]_vars

(* a registration with a repeated parameter name was refused after a route *)
(* of the other method was accepted, and a request is answered by the route *)
C27_Witness ==
    /\ Len(calls) = 2
    /\ calls[1].err = NoErr
    /\ calls[1].method = "GET"
    /\ calls[2].op = "handle"
    /\ calls[2].method = "POST"
    /\ calls[2].err.msg = "duplicate parameter"
    /\ MapHas(tree.roots, "POST")
    /\ Routed
    /\ last.handler = calls[1].handler

-----------------------------------------------------------------------------
(* Specification of re-registration: routes with route middleware, the     *)
(* same method and pattern possibly registered again                       *)
ReregPatterns ==
    { <<"/">>,
      <<"/", "a">>,
      <<"/", "a", "/", ":", "x">>,
      <<"/", "a", "/", "*", "x">> }

ReregPaths ==
    { <<"/">>,
      <<"/", "a">>,
      <<"/", "a", "/", "c">>,
      <<"/", "a", "/", "c", "/", "d">> }

NextRereg ==
    \/ /\ NumRoutes < MaxRoutes
       /\ \E method \in Methods, path \in ReregPatterns, n \in GroupArgs :
              Handle(method, path, <<>>, n)
    \/ Serve
    \/ \E method \in Methods, path \in ReregPaths : ServeHTTP(method, path, NoEnv)

SpecRereg == Init /\ [][NextRereg]_vars

(* the accepted registrations of the method and pattern of call *)
SameRoute(call) ==
    {i \in Accepted : calls[i].method = call.method /\ calls[i].path = call.path}

Latest(S) == CHOOSE i \in S : \A j \in S : j <= i

(* C29: a step that registers a method and pattern that were registered    *)
(* before adds no node and changes no node's segment or children; every    *)
(* path whose lookup returned the earlier handler now returns the new      *)
(* handler with the new middleware list and the same bindings, the earlier *)
(* handler is in no node, and the lookup of every other path is unchanged.  *)
C29_ReRegistrationLastWins ==
    [][ ( /\ Len(calls') = Len(calls) + 1
          /\ calls'[Len(calls')].op = "handle"
          /\ calls'[Len(calls')].err = NoErr
          /\ SameRoute(calls'[Len(calls')]) # {} )
        => LET second == calls'[Len(calls')]
               first == calls[Latest(SameRoute(second))]
           IN  /\ Len(tree'.nodes) = Len(tree.nodes)
               /\ tree'.roots = tree.roots
               /\ OnlyAppended(tree, tree') /\ OnlyAppended(tree', tree)
               /\ \A method \in Methods, path \in ReregPaths :
                     LET f == Find(tree, method, path)
                         g == Find(tree', method, path)
                     IN  IF f.handler = first.handler
                         THEN /\ g.handler = second.handler
                              /\ g.middleware = second.mw
                              /\ g.params = f.params
                         ELSE g = f
               /\ \A n \in 1..Len(tree'.nodes) :
                     <<first.method, first.handler>> \notin tree'.nodes[n].Handlers ]_vars

C29_Witness ==
    /\ Len(calls) = 2
    /\ Accepted = {1, 2}
    /\ calls[1].method = calls[2].method
    /\ calls[1].path = <<"/", "a", "/", ":", "x">>
    /\ calls[2].path = <<"/", "a", "/", ":", "x">>
    /\ calls[1].mw # <<>> /\ calls[2].mw # <<>>
    /\ Routed
    /\ last.handler = calls[2].handler
    /\ last.middleware = calls[2].mw

-----------------------------------------------------------------------------
(* C30: a request that matches no route enters no middleware and no        *)
(* handler, whatever global and route middleware is registered: ServeHTTP  *)
(* calls the Not-Found or the Method-Not-Allowed hook directly and after   *)
(* it nothing, or the error hook with the failure the hook returned.       *)
C30_HooksBypassMiddleware ==
    (Served /\ ~Routed) =>
        /\ last.outcome \in {"NotFound", "MethodNotAllowed"}
        /\ last.ctx.trace = <<>>
        /\ last.returned.trace = <<>>
        /\ last.ctx.hooks \in
               { << <<last.outcome>> >>,
                 << <<last.outcome>>, <<"ErrorHandler", last.err>> >> }

(* global and route middleware are registered, the request is for the      *)
(* other method of the route's path, and the hook fails                    *)
C30_Witness ==
    /\ middleware # <<>>
    /\ \E i \in Accepted : calls[i].mw # <<>> /\ calls[i].method # last.method
    /\ last.outcome = "MethodNotAllowed"
    /\ last.ctx.trace = <<>>
    /\ last.ctx.hooks = << <<"MethodNotAllowed">>, <<"ErrorHandler", "hook failed">> >>

====
